---- MODULE Spec2Model ----
(***************************************************************************)
(* Model of the pressure monitor of demo.py: the class Pressure, its       *)
(* class-level dictionaries and its transition method.  Pressure values    *)
(* are integers on a small grid (one unit is one step of the sensor), so   *)
(* that comparisons and differences are exact.                             *)
(***************************************************************************)
EXTENDS Integers, Sequences, FiniteSets, TLC

\* ------------------------------------------------------------------ bounds
MaxValue == 6          \* readings are drawn from 0..MaxValue
MaxCount == 3          \* no counter is driven above MaxCount
MaxMonitors == 2       \* Pressure instances constructed in SpecMulti
MaxLines == 4          \* the --max_lines given with the two-entity file

\* --------------------------------------------------------------- constants
FREQ == 15
None == -1             \* Python's None: a value outside the grid of readings
MonitoredKind == "Pressione a valle"

IDs == {"P1", "P2"}
Kinds == {MonitoredKind, "Portata"}
Values == 0..MaxValue
Records == [ID : IDs, Valore : Values, Tipo : Kinds]

\* the input files the model explores: one entity with monitored readings
\* on the whole grid, or every entity on a coarse grid (zero, inside the
\* band, above it)
CoarseValues == {0, 3, MaxValue}
FineFile == {r \in Records : /\ r.ID = "P1"
                             /\ r.Tipo = MonitoredKind \/ r.Valore \in CoarseValues}
CoarseFile == {r \in Records : r.Valore \in CoarseValues}

\* the constructor arguments the model explores
Lows == {1}
Highs == {5}
Deltas == {0, 1}
Unsafes == {0, 1, 2}
Configs == [LOW : Lows, HIGH : Highs, MAX_DELTA : Deltas, MAX_UNSAFE : Unsafes]

VARIABLES
    args,         \* infile: the records the input file can deliver;
                  \* max_lines: None or the number of lines to read
    line_count,   \* lines read so far (kept at 0 when max_lines is None)
    cfg,          \* instance -> its attributes LOW, HIGH, MAX_DELTA, MAX_UNSAFE
    low_counts,   \* the five dictionaries of the class body, ID -> value
    high_counts,
    up_counts,
    down_counts,
    prev_value,
    call,         \* the most recent call of transition, <<>> before the
                  \* first: <<[self, event, prev]>>, prev its local variable
    result,       \* what that call returned: <<>> for None, <<e>> for error(e)
    above_run,    \* history: length of the run of monitored readings > HIGH
    below_run,    \* history: length of the run of monitored readings < LOW
    log,          \* history: the records evaluated so far, where it is kept
    main          \* the run of main: pc, online, the record in hand (<<>>
                  \* or <<event>>), the last answer of the operator, the
                  \* calls of monitor.end() and whether eval came after one

vars == <<args, line_count, cfg, low_counts, high_counts, up_counts, down_counts, prev_value,
          call, result, above_run, below_run, log, main>>

\* ------------------------------------------------------------ dictionaries
EmptyDict == [k \in {} |-> 0]

Get(d, k, default) == IF k \in DOMAIN d THEN d[k] ELSE default

\* variant: the value is stored under every key of the dictionary
Put_EveryKey(d, k, v) == [x \in (DOMAIN d) \cup {k} |-> v]

Put(d, k, v) == [x \in (DOMAIN d) \cup {k} |-> IF x = k THEN v ELSE d[x]]

\* Python truth value of `prev`: None and 0.0 are false
Truthy(prev) == prev # None /\ prev # 0

Abs(x) == IF x < 0 THEN -x ELSE x

Min(a, b) == IF a < b THEN a ELSE b

\* variant: the message carries the count itself
Error_Streak(id, what, count) == [id |-> id, what |-> what, minutes |-> count]

\* the value error(...) is called with: the f-string's fields
Error(id, what, count) == [id |-> id, what |-> what, minutes |-> count * FREQ]

\* ------------------------------------------------------------- transition
\* s is the state of one call: the dictionaries, whether the call has
\* returned, and the values it returned.

\* variant: error(...) is reported but the method goes on
ReturnError_GoOn(s, e) == [s EXCEPT !.result = Append(@, e)]

\* the statement `return error(...)`
ReturnError(s, e) == [s EXCEPT !.returned = TRUE, !.result = Append(@, e)]

\* variant: the alert fires one reading early (>= for >)
CheckHigh_AtLimit(s, c, event) ==
    IF ~s.returned /\ event.Valore > c.HIGH
    THEN LET count == Get(s.high_counts, event.ID, 0) + 1
             s1 == [s EXCEPT !.high_counts = Put(@, event.ID, count)]
         IN IF count >= c.MAX_UNSAFE
            THEN ReturnError(s1, Error(event.ID, "too high", count))
            ELSE [s1 EXCEPT !.low_counts = Put(@, event.ID, 0)]
    ELSE s

\* variant: the alert clears the counter that raised it
CheckHigh_ClearOnAlert(s, c, event) ==
    IF ~s.returned /\ event.Valore > c.HIGH
    THEN LET count == Get(s.high_counts, event.ID, 0) + 1
             s1 == [s EXCEPT !.high_counts = Put(@, event.ID, count)]
         IN IF count > c.MAX_UNSAFE
            THEN ReturnError([s1 EXCEPT !.high_counts = Put(@, event.ID, 0)],
                             Error(event.ID, "too high", count))
            ELSE [s1 EXCEPT !.low_counts = Put(@, event.ID, 0)]
    ELSE s

\* first match statement: too high
CheckHigh(s, c, event) ==
    IF ~s.returned /\ event.Valore > c.HIGH
    THEN LET count == Get(s.high_counts, event.ID, 0) + 1
             s1 == [s EXCEPT !.high_counts = Put(@, event.ID, count)]
         IN IF count > c.MAX_UNSAFE
            THEN ReturnError(s1, Error(event.ID, "too high", count))
            ELSE [s1 EXCEPT !.low_counts = Put(@, event.ID, 0)]
    ELSE s

\* variant: a low reading does not clear the high counter
CheckLow_NoCrossReset(s, c, event) ==
    IF ~s.returned /\ event.Valore < c.LOW
    THEN LET count == Get(s.low_counts, event.ID, 0) + 1
             s1 == [s EXCEPT !.low_counts = Put(@, event.ID, count)]
         IN IF count > c.MAX_UNSAFE
            THEN ReturnError(s1, Error(event.ID, "too low", count))
            ELSE [s1 EXCEPT !.low_counts = Put(@, event.ID, count)]
    ELSE s

\* second match statement: too low
CheckLow(s, c, event) ==
    IF ~s.returned /\ event.Valore < c.LOW
    THEN LET count == Get(s.low_counts, event.ID, 0) + 1
             s1 == [s EXCEPT !.low_counts = Put(@, event.ID, count)]
         IN IF count > c.MAX_UNSAFE
            THEN ReturnError(s1, Error(event.ID, "too low", count))
            ELSE [s1 EXCEPT !.low_counts = Put(@, event.ID, count),
                            !.high_counts = Put(@, event.ID, 0)]
    ELSE s

\* variant: the check runs even after an earlier check returned
CheckUp_IgnoreReturn(s, c, event, prev) ==
    IF Truthy(prev) /\ event.Valore - prev > c.MAX_DELTA
    THEN LET count == Get(s.up_counts, event.ID, 0) + 1
             s1 == [s EXCEPT !.up_counts = Put(@, event.ID, count)]
         IN IF count > c.MAX_UNSAFE
            THEN ReturnError(s1, Error(event.ID, "increased", count))
            ELSE [s1 EXCEPT !.down_counts = Put(@, event.ID, 0)]
    ELSE s

\* third match statement: increased by over MAX_DELTA
CheckUp(s, c, event, prev) ==
    IF ~s.returned /\ Truthy(prev) /\ event.Valore - prev > c.MAX_DELTA
    THEN LET count == Get(s.up_counts, event.ID, 0) + 1
             s1 == [s EXCEPT !.up_counts = Put(@, event.ID, count)]
         IN IF count > c.MAX_UNSAFE
            THEN ReturnError(s1, Error(event.ID, "increased", count))
            ELSE [s1 EXCEPT !.down_counts = Put(@, event.ID, 0)]
    ELSE s

\* variant: a fall does not clear the up counter
CheckDown_NoCrossReset(s, c, event, prev) ==
    IF ~s.returned /\ Truthy(prev) /\ prev - event.Valore > c.MAX_DELTA
    THEN LET count == Get(s.down_counts, event.ID, 0) + 1
             s1 == [s EXCEPT !.down_counts = Put(@, event.ID, count)]
         IN IF count > c.MAX_UNSAFE
            THEN ReturnError(s1, Error(event.ID, "decreased", count))
            ELSE s1
    ELSE s

\* fourth match statement: decreased by over MAX_DELTA
CheckDown(s, c, event, prev) ==
    IF ~s.returned /\ Truthy(prev) /\ prev - event.Valore > c.MAX_DELTA
    THEN LET count == Get(s.down_counts, event.ID, 0) + 1
             s1 == [s EXCEPT !.down_counts = Put(@, event.ID, count)]
         IN IF count > c.MAX_UNSAFE
            THEN ReturnError(s1, Error(event.ID, "decreased", count))
            ELSE [s1 EXCEPT !.up_counts = Put(@, event.ID, 0)]
    ELSE s

\* fifth match statement: the change is within MAX_DELTA
ResetDelta(s, c, event, prev) ==
    IF ~s.returned /\ Truthy(prev) /\ Abs(event.Valore - prev) <= c.MAX_DELTA
    THEN [s EXCEPT !.up_counts = Put(@, event.ID, 0),
                   !.down_counts = Put(@, event.ID, 0)]
    ELSE s

\* variant: the thresholds themselves count as inside the band
ResetBand_Inclusive(s, c, event) ==
    IF ~s.returned /\ event.Valore >= c.LOW /\ event.Valore <= c.HIGH
    THEN [s EXCEPT !.high_counts = Put(@, event.ID, 0),
                   !.low_counts = Put(@, event.ID, 0)]
    ELSE s

\* sixth match statement: the value is inside the safe band
ResetBand(s, c, event) ==
    IF ~s.returned /\ event.Valore > c.LOW /\ event.Valore < c.HIGH
    THEN [s EXCEPT !.high_counts = Put(@, event.ID, 0),
                   !.low_counts = Put(@, event.ID, 0)]
    ELSE s

\* variant: the kind test lets every record through
Accepts_AnyKind(event) == event.Tipo \in Kinds

\* the kind test that opens transition
Accepts(event) == event.Tipo = MonitoredKind

\* variant: prev_value is stored after the checks, so not when one returns
Transition_PrevLast(s, c, event) ==
    LET s0 == [s EXCEPT !.returned = FALSE, !.result = <<>>, !.prev = None]
    IN IF ~Accepts(event)
       THEN [s0 EXCEPT !.returned = TRUE]
       ELSE LET prev == Get(s0.prev_value, event.ID, None)
                s1 == [s0 EXCEPT !.prev = prev]
                s2 == CheckHigh(s1, c, event)
                s3 == CheckLow(s2, c, event)
                s4 == CheckUp(s3, c, event, prev)
                s5 == CheckDown(s4, c, event, prev)
                s6 == ResetDelta(s5, c, event, prev)
                s7 == ResetBand(s6, c, event)
            IN IF s7.returned THEN s7
               ELSE [s7 EXCEPT !.prev_value = Put(@, event.ID, event.Valore)]

\* Pressure.transition(self, event) with c the attributes of self,
\* started on the dictionaries of s
Transition(s, c, event) ==
    LET s0 == [s EXCEPT !.returned = FALSE, !.result = <<>>, !.prev = None]
    IN IF ~Accepts(event)
       THEN [s0 EXCEPT !.returned = TRUE]
       ELSE LET prev == Get(s0.prev_value, event.ID, None)
                s1 == [s0 EXCEPT !.prev_value = Put(@, event.ID, event.Valore),
                                 !.prev = prev]
                s2 == CheckHigh(s1, c, event)
                s3 == CheckLow(s2, c, event)
                s4 == CheckUp(s3, c, event, prev)
                s5 == CheckDown(s4, c, event, prev)
                s6 == ResetDelta(s5, c, event, prev)
            IN ResetBand(s6, c, event)

\* the dictionaries every instance reaches through self: class attributes
Store == [low_counts |-> low_counts, high_counts |-> high_counts,
          up_counts |-> up_counts, down_counts |-> down_counts,
          prev_value |-> prev_value, returned |-> FALSE, result |-> <<>>,
          prev |-> None]

Counters(s) == {s.low_counts, s.high_counts, s.up_counts, s.down_counts}

WithinBounds(s) == \A d \in Counters(s) : \A k \in DOMAIN d : d[k] <= MaxCount

\* history of the monitored readings of event.ID, as seen by thresholds c
NextRun(run, event, hit) ==
    IF ~Accepts(event) THEN run
    ELSE [run EXCEPT ![event.ID] = IF hit THEN Min(@ + 1, MaxCount) ELSE 0]

\* ----------------------------------------------------------------- actions
\* self.transition(event) on the dictionaries of the class
Apply(self, event) ==
    LET t == Transition(Store, cfg[self], event)
    IN /\ WithinBounds(t)
       /\ low_counts' = t.low_counts
       /\ high_counts' = t.high_counts
       /\ up_counts' = t.up_counts
       /\ down_counts' = t.down_counts
       /\ prev_value' = t.prev_value
       /\ result' = t.result
       /\ call' = <<[self |-> self, event |-> event, prev |-> t.prev]>>
       /\ above_run' = NextRun(above_run, event, event.Valore > cfg[self].HIGH)
       /\ below_run' = NextRun(below_run, event, event.Valore < cfg[self].LOW)
       /\ UNCHANGED <<args, cfg>>

\* one turn of the loop of main in batch mode: read a line, count it and,
\* within max_lines, call monitor.eval(event)
ReadAndEval(self, event) ==
    /\ event \in args.infile
    /\ args.max_lines # None => line_count < args.max_lines
    /\ line_count' = IF args.max_lines = None THEN line_count
                                             ELSE line_count + 1
    /\ Apply(self, event)

Eval(self, event) ==
    /\ ReadAndEval(self, event)
    /\ UNCHANGED <<log, main>>

\* Pressure(low, high, max_delta, max_unsafe): one more instance
Construct(c) ==
    /\ Cardinality(DOMAIN cfg) < MaxMonitors
    /\ cfg' = [m \in (DOMAIN cfg) \cup {Cardinality(DOMAIN cfg) + 1} |->
                 IF m \in DOMAIN cfg THEN cfg[m] ELSE c]
    /\ call' = <<>>
    /\ result' = <<>>
    /\ UNCHANGED <<args, line_count, low_counts, high_counts, up_counts, down_counts,
                   prev_value, above_run, below_run, log, main>>

\* the state after the class body ran; main then builds its one monitor
Start ==
    /\ line_count = 0
    /\ low_counts = EmptyDict
    /\ high_counts = EmptyDict
    /\ up_counts = EmptyDict
    /\ down_counts = EmptyDict
    /\ prev_value = EmptyDict
    /\ call = <<>>
    /\ result = <<>>
    /\ above_run = [id \in IDs |-> 0]
    /\ below_run = [id \in IDs |-> 0]
    /\ log = <<>>

\* main in batch mode, inside its loop
InLoop == [pc |-> "for", online |-> FALSE, event |-> <<>>, resp |-> "unasked",
           end_calls |-> 0, eval_after_end |-> FALSE]

Init == Start /\ cfg \in [{1} -> Configs] /\ main = InLoop /\ args = [infile |-> FineFile, max_lines |-> None]

Next == \E self \in DOMAIN cfg, event \in Records : Eval(self, event)

Spec == Init /\ [][Next]_vars

\* the same loop, keeping the log of the records it evaluated
EvalLogged(self, event) ==
    /\ ReadAndEval(self, event)
    /\ log' = Append(log, event)
    /\ UNCHANGED main

\* a short file of monitored readings of one entity, and thresholds with
\* the low one above or below zero
RunFile == {r \in Records : r.ID = "P1" /\ r.Tipo = MonitoredKind}
RunConfigs == [LOW : {-1, 1}, HIGH : Highs, MAX_DELTA : Deltas, MAX_UNSAFE : Unsafes]

InitRun ==
    /\ cfg \in [{1} -> RunConfigs]
    /\ Start
    /\ main = InLoop
    /\ args = [infile |-> RunFile, max_lines |-> MaxLines]

NextRunLogged == \E self \in DOMAIN cfg, event \in Records : EvalLogged(self, event)

SpecRun == InitRun /\ [][NextRunLogged]_vars

\* ------------------------------------------------------------------- main
\* what the operator can type at the prompt: quit, Enter, anything else
Answers == {"q", "", "x"}

\* variant: 'q' ends the monitor but does not leave the program
GetNextInput_NoExit(m, resp) ==
    IF resp = "q"
    THEN [m EXCEPT !.resp = resp, !.end_calls = @ + 1, !.pc = "eval"]
    ELSE IF resp # ""
         THEN [m EXCEPT !.resp = resp]
         ELSE [m EXCEPT !.resp = resp, !.pc = "eval"]

\* get_next_input(monitor) on one answer: 'q' calls monitor.end() and
\* exits, Enter returns to main, anything else asks again
GetNextInput(m, resp) ==
    IF resp = "q"
    THEN [m EXCEPT !.resp = resp, !.end_calls = @ + 1, !.pc = "exited"]
    ELSE IF resp # ""
         THEN [m EXCEPT !.resp = resp]
         ELSE [m EXCEPT !.resp = resp, !.pc = "eval"]

\* the head of the for loop: the next item of csv_reader (a record, or
\* None for <<>>), the line count and the max_lines test
MainRead(item) ==
    /\ main.pc = "for"
    /\ IF item = <<>> THEN TRUE ELSE item[1] \in args.infile
    /\ line_count' = IF args.max_lines = None THEN line_count
                                             ELSE line_count + 1
    /\ main' = IF args.max_lines # None /\ line_count' > args.max_lines
                THEN [main EXCEPT !.pc = "end"]
                ELSE IF item # <<>>
                     THEN [main EXCEPT !.event = item,
                                       !.pc = IF main.online THEN "prompt"
                                                             ELSE "eval"]
                     ELSE main
    /\ UNCHANGED <<args, cfg, low_counts, high_counts, up_counts, down_counts,
                   prev_value, call, result, above_run, below_run, log>>

\* csv_reader has no more lines: the loop ends
MainExhausted ==
    /\ main.pc = "for"
    /\ main' = [main EXCEPT !.pc = "end"]
    /\ UNCHANGED <<args, line_count, cfg, low_counts, high_counts, up_counts,
                   down_counts, prev_value, call, result, above_run, below_run,
                   log>>

\* online mode: the operator answers the prompt
MainPrompt(resp) ==
    /\ main.pc = "prompt"
    /\ main' = GetNextInput(main, resp)
    /\ UNCHANGED <<args, line_count, cfg, low_counts, high_counts, up_counts,
                   down_counts, prev_value, call, result, above_run, below_run,
                   log>>

\* print(event); monitor.eval(event)
MainEval ==
    /\ main.pc = "eval"
    /\ Apply(1, main.event[1])
    /\ main' = [main EXCEPT !.pc = "for",
                            !.eval_after_end = @ \/ main.end_calls > 0]
    /\ UNCHANGED <<line_count, log>>

\* monitor.end() after the loop, then main runs to its end
MainEnd ==
    /\ main.pc = "end"
    /\ main' = [main EXCEPT !.pc = "exited", !.end_calls = @ + 1]
    /\ UNCHANGED <<args, line_count, cfg, low_counts, high_counts, up_counts,
                   down_counts, prev_value, call, result, above_run, below_run,
                   log>>

\* the files and options main is run with: one entity on the coarse grid,
\* with or without --max_lines, with or without --online
MainFile == {r \in CoarseFile : r.ID = "P1"}

InitMain ==
    /\ cfg \in [{1} -> Configs]
    /\ Start
    /\ main \in {[InLoop EXCEPT !.online = b] : b \in BOOLEAN}
    /\ args \in {[infile |-> MainFile, max_lines |-> n] : n \in {None, MaxLines}}

NextMain ==
    \/ \E event \in Records : MainRead(<<event>>)
    \/ MainRead(<<>>)
    \/ MainExhausted
    \/ \E resp \in Answers : MainPrompt(resp)
    \/ MainEval
    \/ MainEnd

SpecMain == InitMain /\ [][NextMain]_vars

\* the same monitor on a file that interleaves the records of two entities
InitPair ==
    Start /\ cfg \in [{1} -> Configs] /\ main = InLoop /\ args = [infile |-> CoarseFile, max_lines |-> MaxLines]

SpecPair == InitPair /\ [][Next]_vars

\* a program that builds several monitors
NextMulti ==
    \/ \E self \in DOMAIN cfg, event \in Records : Eval(self, event)
    \/ \E c \in Configs : Construct(c)

SpecMulti == InitPair /\ [][NextMulti]_vars

TypeOK ==
    /\ DOMAIN cfg \subseteq 1..MaxMonitors
    /\ \A d \in Counters(Store) : DOMAIN d \subseteq IDs
    /\ \A d \in Counters(Store) : \A k \in DOMAIN d : d[k] \in 0..MaxCount
    /\ Len(result) <= 1

\* ------------------------------------------------------ reading the state
\* the counter an entity has in a dictionary, as the code reads it
Count(d, id) == Get(d, id, 0)

\* the most recent call was transition on a record of the monitored kind
Filtered == call # <<>> /\ Accepts(call[1].event)

\* that call returned error(...) about `what`
Emitted(what) == result # <<>> /\ result[1].what = what

\* ------------------------------------------------------------------ C1
\* C1: a too-high violation is only emitted when the last MAX_UNSAFE + 1
\* monitored readings of the entity (the current one included) were all
\* above HIGH, and a too-low violation only when they were all below LOW.
C1_SustainedOnly ==
    Filtered =>
        LET id == call[1].event.ID
            c == cfg[call[1].self]
        IN /\ Emitted("too high") => above_run[id] >= c.MAX_UNSAFE + 1
           /\ Emitted("too low") => below_run[id] >= c.MAX_UNSAFE + 1

\* ------------------------------------------------------------------ C2
\* the dictionaries that hold streak counters
CounterNames == {"low_counts", "high_counts", "up_counts", "down_counts"}

\* C2 as stated: a monitored reading emits a violation if and only if it
\* moves one of the entity's counters from exactly MAX_UNSAFE to
\* MAX_UNSAFE + 1.
C2_ExactBoundaryStep ==
    Filtered' =>
        LET id == call'[1].event.ID
            c == cfg[call'[1].self]
        IN (result' # <<>>) <=>
              \E n \in CounterNames :
                  /\ Count(Store[n], id) = c.MAX_UNSAFE
                  /\ Count(Store'[n], id) = c.MAX_UNSAFE + 1

C2_ExactBoundary == [][C2_ExactBoundaryStep]_vars

\* C2 amended: a monitored reading emits a violation if and only if it
\* increments one of the entity's counters to a value above MAX_UNSAFE,
\* from MAX_UNSAFE or from any larger value; a reading that leaves every
\* incremented counter at or below MAX_UNSAFE emits nothing.
C2_CrossingStep ==
    Filtered' =>
        LET id == call'[1].event.ID
            c == cfg[call'[1].self]
        IN (result' # <<>>) <=>
              \E n \in CounterNames :
                  /\ Count(Store'[n], id) = Count(Store[n], id) + 1
                  /\ Count(Store'[n], id) > c.MAX_UNSAFE

C2_Crossing == [][C2_CrossingStep]_vars

\* a violation is reported again while the low streak is already over the limit
C2_Witness ==
    /\ Filtered
    /\ Emitted("too low")
    /\ Count(low_counts, call[1].event.ID) = cfg[call[1].self].MAX_UNSAFE + 2

\* ------------------------------------------------------------------ C3
\* C3: after any monitored reading strictly inside the safe band the
\* entity's high and low counters are both 0.
C3_BandResets ==
    Filtered =>
        LET id == call[1].event.ID
            v == call[1].event.Valore
            c == cfg[call[1].self]
        IN (c.LOW < v /\ v < c.HIGH) =>
              Count(high_counts, id) = 0 /\ Count(low_counts, id) = 0

\* ------------------------------------------------------------------ C4
\* C4: after any monitored reading of an entity that has a previous value
\* (0 included) and changed by at most MAX_DELTA, the entity's up and down
\* counters are both 0.
C4_StableResets ==
    Filtered =>
        LET id == call[1].event.ID
            v == call[1].event.Valore
            prev == call[1].prev
            c == cfg[call[1].self]
        IN (prev # None /\ Abs(v - prev) <= c.MAX_DELTA) =>
              Count(up_counts, id) = 0 /\ Count(down_counts, id) = 0

\* ------------------------------------------------------------------ C5
\* C5: every monitored reading that satisfies one of the four conditions
\* adds exactly 1 to that condition's counter, and every monitored reading
\* that satisfies the matching reset condition sets it to 0, whatever the
\* other checks do on that reading.
C5_IndependentStep ==
    Filtered' =>
        LET id == call'[1].event.ID
            v == call'[1].event.Valore
            prev == call'[1].prev
            c == cfg[call'[1].self]
            band == c.LOW < v /\ v < c.HIGH
            stable == prev # None /\ Abs(v - prev) <= c.MAX_DELTA
        IN /\ v > c.HIGH =>
                Count(high_counts', id) = Count(high_counts, id) + 1
           /\ v < c.LOW =>
                Count(low_counts', id) = Count(low_counts, id) + 1
           /\ (prev # None /\ v - prev > c.MAX_DELTA) =>
                Count(up_counts', id) = Count(up_counts, id) + 1
           /\ (prev # None /\ prev - v > c.MAX_DELTA) =>
                Count(down_counts', id) = Count(down_counts, id) + 1
           /\ band => Count(high_counts', id) = 0 /\ Count(low_counts', id) = 0
           /\ stable => Count(up_counts', id) = 0 /\ Count(down_counts', id) = 0

C5_Independent == [][C5_IndependentStep]_vars

\* ------------------------------------------------------------------ C6
\* C6: a too-high violation leaves high_counts at the reported streak, and
\* once an entity's high counter is above MAX_UNSAFE every next monitored
\* reading of it above HIGH adds 1 to the counter and emits the too-high
\* violation again, with the larger streak.
C6_RereportStep ==
    Filtered' =>
        LET id == call'[1].event.ID
            v == call'[1].event.Valore
            c == cfg[call'[1].self]
            old == Count(high_counts, id)
        IN /\ (old > c.MAX_UNSAFE /\ v > c.HIGH) =>
                /\ Count(high_counts', id) = old + 1
                /\ result' = <<Error(id, "too high", old + 1)>>
           /\ Emitted("too high")' =>
                /\ Count(high_counts', id) > c.MAX_UNSAFE
                /\ result'[1].minutes = Count(high_counts', id) * FREQ

C6_Rereport == [][C6_RereportStep]_vars

\* the too-high violation is emitted a second time in a row
C6_Witness ==
    /\ Filtered
    /\ Emitted("too high")
    /\ Count(high_counts, call[1].event.ID) = cfg[call[1].self].MAX_UNSAFE + 2
    /\ above_run[call[1].event.ID] >= 2

\* ------------------------------------------------------------------ C7
\* the reading of the most recent call would push a counter over the limit
OverHigh(c, id, v) == v > c.HIGH /\ Count(high_counts, id) + 1 > c.MAX_UNSAFE

OverLow(c, id, v) == v < c.LOW /\ Count(low_counts, id) + 1 > c.MAX_UNSAFE

OverUp(c, id, v, prev) ==
    prev # None /\ v - prev > c.MAX_DELTA /\ Count(up_counts, id) + 1 > c.MAX_UNSAFE

\* C7: one call of transition returns at most one violation, and when
\* several counters are due to exceed MAX_UNSAFE on the same reading the
\* violation returned is that of the first check in the order high, low,
\* up, down.
C7_OneInOrderStep ==
    Filtered' =>
        LET id == call'[1].event.ID
            v == call'[1].event.Valore
            prev == call'[1].prev
            c == cfg[call'[1].self]
        IN /\ Len(result') <= 1
           /\ OverHigh(c, id, v) => Emitted("too high")'
           /\ (OverLow(c, id, v) /\ ~OverHigh(c, id, v)) => Emitted("too low")'
           /\ Emitted("increased")' => ~OverHigh(c, id, v) /\ ~OverLow(c, id, v)
           /\ Emitted("decreased")' =>
                 ~OverHigh(c, id, v) /\ ~OverLow(c, id, v) /\ ~OverUp(c, id, v, prev)

C7_OneInOrder == [][C7_OneInOrderStep]_vars

\* a reading that is too high and rose too fast, both past the limit:
\* only the too-high violation came out and up_counts was not touched
C7_Witness ==
    /\ Filtered
    /\ Emitted("too high")
    /\ Len(result) = 1
    /\ Truthy(call[1].prev)
    /\ call[1].event.Valore - call[1].prev > cfg[call[1].self].MAX_DELTA
    /\ Count(up_counts, call[1].event.ID) >= cfg[call[1].self].MAX_UNSAFE
    /\ cfg[call[1].self].MAX_UNSAFE > 0

\* ------------------------------------------------------------------ C8
\* the state record s cut down to the entries of one entity
OnlyEntity(s, id) ==
    LET cut(d) == [k \in (DOMAIN d) \cap {id} |-> d[k]]
    IN [s EXCEPT !.low_counts = cut(@), !.high_counts = cut(@),
                 !.up_counts = cut(@), !.down_counts = cut(@),
                 !.prev_value = cut(@)]

DictNames == CounterNames \cup {"prev_value"}

\* C8: a call of transition for entity A leaves the entries of every other
\* entity in the five dictionaries as they were, and what it returns and
\* writes for A is what it would return and write if A's entries were the
\* only ones in the dictionaries.
C8_EntitiesApartStep ==
    (call' # <<>> /\ cfg' = cfg) =>
        LET id == call'[1].event.ID
            c == cfg[call'[1].self]
            alone == Transition(OnlyEntity(Store, id), c, call'[1].event)
        IN /\ \A n \in DictNames : \A b \in IDs \ {id} :
                 /\ b \in DOMAIN Store'[n] <=> b \in DOMAIN Store[n]
                 /\ b \in DOMAIN Store[n] => Store'[n][b] = Store[n][b]
           /\ result' = alone.result
           /\ \A n \in DictNames :
                 /\ id \in DOMAIN Store'[n] <=> id \in DOMAIN alone[n]
                 /\ id \in DOMAIN alone[n] => Store'[n][id] = alone[n][id]

C8_EntitiesApart == [][C8_EntitiesApartStep]_vars

\* P2 gets its first too-high reading while P1 has a streak of two
C8_Witness ==
    /\ Filtered
    /\ call[1].event.ID = "P2"
    /\ call[1].event.Valore > cfg[call[1].self].HIGH
    /\ Count(high_counts, "P2") = 1
    /\ Count(high_counts, "P1") = 2

\* ------------------------------------------------------------------ C9
\* C9: a record of another kind leaves the five dictionaries exactly as
\* they were, for its own entity too, and transition returns nothing.
C9_OtherKindStep ==
    (call' # <<>> /\ ~(call'[1].event.Tipo = MonitoredKind)) =>
        /\ \A n \in DictNames : Store'[n] = Store[n]
        /\ result' = <<>>

C9_OtherKind == [][C9_OtherKindStep]_vars

\* a record of another kind, below LOW, for an entity in a high streak
C9_Witness ==
    /\ call # <<>>
    /\ call[1].event.Tipo # MonitoredKind
    /\ call[1].event.Valore < cfg[call[1].self].LOW
    /\ Count(high_counts, call[1].event.ID) > 0
    /\ prev_value[call[1].event.ID] # call[1].event.Valore

\* ------------------------------------------------------------------ C10
\* the dictionaries an instance reads and writes through self
DictsOf(self) == [n \in DictNames |-> Store[n]]

\* C10: a call of transition on one instance leaves the dictionaries of
\* every other instance unchanged, and a newly constructed instance has
\* empty dictionaries.
C10_PerInstanceStep ==
    /\ (call' # <<>> /\ cfg' = cfg) =>
          \A m \in (DOMAIN cfg) \ {call'[1].self} : DictsOf(m)' = DictsOf(m)
    /\ cfg' # cfg =>
          \A m \in (DOMAIN cfg') \ (DOMAIN cfg) :
              \A n \in DictNames : DictsOf(m)'[n] = EmptyDict

C10_PerInstance == [][C10_PerInstanceStep]_vars

\* ------------------------------------------------------------------ C11
\* C11: on every monitored reading of an entity that has a previous value,
\* whatever that value is, and on which neither level check returned a
\* violation, a rise of more than MAX_DELTA adds 1 to up_counts and a fall
\* of more than MAX_DELTA adds 1 to down_counts; only the first monitored
\* reading of an entity skips the two checks.
C11_RateAppliesStep ==
    Filtered' =>
        LET id == call'[1].event.ID
            v == call'[1].event.Valore
            prev == call'[1].prev
            c == cfg[call'[1].self]
        IN /\ (prev # None /\ ~Emitted("too high")' /\ ~Emitted("too low")') =>
                /\ v - prev > c.MAX_DELTA =>
                      Count(up_counts', id) = Count(up_counts, id) + 1
                /\ prev - v > c.MAX_DELTA =>
                      Count(down_counts', id) = Count(down_counts, id) + 1
           /\ prev = None =>
                /\ Count(up_counts', id) = Count(up_counts, id)
                /\ Count(down_counts', id) = Count(down_counts, id)

C11_RateApplies == [][C11_RateAppliesStep]_vars

\* ------------------------------------------------------------------ C12
\* the values of the monitored readings of an entity in the log, in order
Readings(id) ==
    LET mine(r) == r.ID = id /\ r.Tipo = MonitoredKind
        recs == SelectSeq(log, mine)
    IN [i \in 1..Len(recs) |-> recs[i].Valore]

\* C12: after every monitored reading, one that returned a violation
\* included, prev_value of the entity is that reading's value, and the
\* value the rate checks compared with was the entity's monitored reading
\* just before it (none on the first).
C12_PrevIsLast ==
    Filtered =>
        LET id == call[1].event.ID
            xs == Readings(id)
            n == Len(xs)
        IN /\ n >= 1
           /\ id \in DOMAIN prev_value
           /\ prev_value[id] = xs[n]
           /\ xs[n] = call[1].event.Valore
           /\ call[1].prev = IF n = 1 THEN None ELSE xs[n - 1]

\* a violation was returned on a reading that differs from the one before
C12_Witness ==
    /\ Filtered
    /\ result # <<>>
    /\ Len(Readings(call[1].event.ID)) >= 3
    /\ call[1].prev # None
    /\ call[1].prev # call[1].event.Valore
    /\ prev_value[call[1].event.ID] = call[1].event.Valore

\* ------------------------------------------------------------------ C13
\* C13: a monitored reading exactly equal to LOW or to HIGH leaves the
\* entity's high and low counters as they were.
C13_ThresholdStep ==
    Filtered' =>
        LET id == call'[1].event.ID
            v == call'[1].event.Valore
            c == cfg[call'[1].self]
        IN (v = c.LOW \/ v = c.HIGH) =>
              /\ Count(high_counts', id) = Count(high_counts, id)
              /\ Count(low_counts', id) = Count(low_counts, id)

C13_Threshold == [][C13_ThresholdStep]_vars

\* a reading equal to HIGH arrived in a high streak and the streak stands
C13_Witness ==
    /\ Filtered
    /\ call[1].event.Valore = cfg[call[1].self].HIGH
    /\ Count(high_counts, call[1].event.ID) > 0
    /\ above_run[call[1].event.ID] = 0

\* ------------------------------------------------------------------ C14
\* C14: a reading on which the too-high check returns a violation leaves
\* low_counts, up_counts and down_counts as they were, and one on which the
\* too-low check returns a violation leaves high_counts, up_counts and
\* down_counts as they were.
C14_SkipRestStep ==
    Filtered' =>
        /\ Emitted("too high")' =>
              /\ low_counts' = low_counts
              /\ up_counts' = up_counts
              /\ down_counts' = down_counts
        /\ Emitted("too low")' =>
              /\ high_counts' = high_counts
              /\ up_counts' = up_counts
              /\ down_counts' = down_counts

C14_SkipRest == [][C14_SkipRestStep]_vars

\* a too-high violation on a reading that also rose by more than MAX_DELTA
\* while down_counts was not 0
C14_Witness ==
    /\ Filtered
    /\ Emitted("too high")
    /\ Truthy(call[1].prev)
    /\ call[1].event.Valore - call[1].prev > cfg[call[1].self].MAX_DELTA
    /\ Count(down_counts, call[1].event.ID) > 0

\* ------------------------------------------------------------------ C15
\* every reading of xs is above HIGH and differs from the one before by at
\* most MAX_DELTA
SteadyHigh(xs, c) ==
    /\ \A i \in 1..Len(xs) : xs[i] > c.HIGH
    /\ \A i \in 2..Len(xs) : Abs(xs[i] - xs[i - 1]) <= c.MAX_DELTA

\* C15: when all n monitored readings an entity ever had are above HIGH and
\* steady, high_counts is n, nothing was returned on a reading
\* n <= MAX_UNSAFE and the too-high violation was returned on reading
\* n = MAX_UNSAFE + 1.
C15_HighRun ==
    Filtered =>
        LET id == call[1].event.ID
            c == cfg[call[1].self]
            xs == Readings(id)
            n == Len(xs)
        IN (SteadyHigh(xs, c) /\ n <= c.MAX_UNSAFE + 1) =>
              /\ Count(high_counts, id) = n
              /\ n <= c.MAX_UNSAFE => result = <<>>
              /\ n = c.MAX_UNSAFE + 1 => result = <<Error(id, "too high", n)>>

\* the third of three steady readings above HIGH, with MAX_UNSAFE = 2
C15_Witness ==
    /\ Filtered
    /\ cfg[call[1].self].MAX_UNSAFE = 2
    /\ Len(Readings(call[1].event.ID)) = 3
    /\ SteadyHigh(Readings(call[1].event.ID), cfg[call[1].self])
    /\ Emitted("too high")

\* ------------------------------------------------------------------ C16
\* every reading of xs is strictly inside the band and exceeds the one
\* before by more than MAX_DELTA
RisingInBand(xs, c) ==
    /\ \A i \in 1..Len(xs) : c.LOW < xs[i] /\ xs[i] < c.HIGH
    /\ \A i \in 2..Len(xs) : xs[i] - xs[i - 1] > c.MAX_DELTA

\* C16: when all n monitored readings an entity ever had are inside the
\* band and rising, whatever the first value, up_counts is n - 1, nothing
\* was returned while n - 1 <= MAX_UNSAFE, and the rising violation was
\* returned on reading n = MAX_UNSAFE + 2.
C16_RisingRun ==
    Filtered =>
        LET id == call[1].event.ID
            c == cfg[call[1].self]
            xs == Readings(id)
            n == Len(xs)
        IN (RisingInBand(xs, c) /\ n <= c.MAX_UNSAFE + 2) =>
              /\ Count(up_counts, id) = n - 1
              /\ n - 1 <= c.MAX_UNSAFE => result = <<>>
              /\ n = c.MAX_UNSAFE + 2 => Emitted("increased")

\* ------------------------------------------------------------------ C17
\* the dictionary whose counter a violation reports
CounterOf(what) ==
    CASE what = "too high" -> high_counts
      [] what = "too low" -> low_counts
      [] what = "increased" -> up_counts
      [] what = "decreased" -> down_counts

C18_HighLowApart ==
    \A self \in DOMAIN cfg : cfg[self].MAX_UNSAFE >= 1 =>
        \A id \in IDs : ~(Count(high_counts, id) > 0 /\ Count(low_counts, id) > 0)

\* a reading below LOW right after one above HIGH: the low streak starts
\* and the high counter was cleared
C18_Witness ==
    /\ Filtered
    /\ cfg[call[1].self].MAX_UNSAFE >= 1
    /\ call[1].prev > cfg[call[1].self].HIGH
    /\ call[1].event.Valore < cfg[call[1].self].LOW
    /\ Count(low_counts, call[1].event.ID) = 1
    /\ call[1].event.ID \in DOMAIN high_counts
    /\ high_counts[call[1].event.ID] = 0

\* ------------------------------------------------------------------ C19
\* C19: with MAX_UNSAFE >= 1 no entity ever has up_counts > 0 and
\* down_counts > 0 together, although a rising or falling violation
\* returns before the other counter is cleared.
C19_UpDownApart ==
    \A self \in DOMAIN cfg : cfg[self].MAX_UNSAFE >= 1 =>
        \A id \in IDs : ~(Count(up_counts, id) > 0 /\ Count(down_counts, id) > 0)

\* a falling violation was returned, before the line that clears up_counts
C19_Witness ==
    /\ Filtered
    /\ cfg[call[1].self].MAX_UNSAFE >= 1
    /\ Emitted("decreased")
    /\ Count(down_counts, call[1].event.ID) > cfg[call[1].self].MAX_UNSAFE
    /\ Count(up_counts, call[1].event.ID) = 0

\* ------------------------------------------------------------------ C20
\* C20: once main has terminated monitor.end() was called exactly once and
\* monitor.eval was never called after it; an answer other than Enter and
\* 'q' leaves main at the prompt with the same record in hand and changes
\* nothing else; the record evaluated is the one in hand, after Enter in
\* online mode, and no record leaves the prompt unevaluated.
C20_EndOnceStep ==
    /\ main'.end_calls <= 1
    /\ main'.pc = "exited" => main'.end_calls = 1
    /\ main'.end_calls = 1 => main'.pc = "exited"
    /\ ~main'.eval_after_end
    /\ (main.pc = "prompt" /\ main'.resp \notin {"q", ""}) =>
          /\ main'.pc = "prompt"
          /\ main'.event = main.event
          /\ \A n \in DictNames : Store'[n] = Store[n]
          /\ call' = call
          /\ line_count' = line_count
    /\ (main.pc = "prompt" /\ main'.pc # "prompt") =>
          \/ main'.pc = "eval" /\ main'.resp = "" /\ main'.event = main.event
          \/ main'.pc = "exited" /\ main'.resp = "q"
    /\ (main.pc = "eval" /\ main'.pc # "eval") =>
          /\ call' = <<[self |-> 1, event |-> main.event[1], prev |-> call'[1].prev]>>
          /\ main.online => main.resp = ""

C20_EndOnce == [][C20_EndOnceStep]_vars

\* the operator typed something invalid, then 'q': main has left, with one
\* call of monitor.end(), after at least one record was evaluated
C20_WitnessQuit ==
    /\ main.pc = "exited"
    /\ main.online
    /\ main.resp = "q"
    /\ main.end_calls = 1
    /\ call # <<>>
    /\ main.event # <<>>
    /\ main.event[1] # call[1].event
====
